---- MODULE Spec2Model ----
(***************************************************************************)
(* The macOS pasteboard backend of arboard (src/src/osx_clipboard.rs).     *)
(*                                                                         *)
(* The pasteboard is shared state outside the process.  Every operation of *)
(* OSXClipboardContext is modelled at the granularity of its native calls  *)
(* (msg_send!), so that other writers can interleave between them.         *)
(*                                                                         *)
(*   Spec      one backend running all four operations, next to another    *)
(*             application issuing native pasteboard calls of its own      *)
(*   SpecRace  two backends, each issuing one set_* call, racing           *)
(***************************************************************************)
EXTENDS Integers, Sequences, FiniteSets, TLC

(* ------------------------------ bounds --------------------------------- *)

\* longest text, in code points, handed to set_text
MaxStrLen == 1
\* largest width and height of an image handed to set_image
MaxDim == 2

(* ------------------------- format identifiers -------------------------- *)

NSPasteboardTypeString == "public.utf8-plain-text"
TIFF == "public.tiff"
FILE_URL == "public.file-url"

Types == {NSPasteboardTypeString, TIFF, FILE_URL}

Backends == {"A", "B"}

(* ------------------------------- text ---------------------------------- *)
\* A Rust String is its UTF-8 bytes; an NSString is its UTF-16 code units.

\* one-, three- and four-byte code points (the last needs a surrogate pair)
CodePoints == {65, 8364, 128512}

Utf8Encode(c) ==
  IF c < 128 THEN <<c>>
  ELSE IF c < 2048 THEN <<192 + (c \div 64), 128 + (c % 64)>>
  ELSE IF c < 65536
    THEN <<224 + (c \div 4096), 128 + ((c \div 64) % 64), 128 + (c % 64)>>
    ELSE <<240 + (c \div 262144), 128 + ((c \div 4096) % 64),
           128 + ((c \div 64) % 64), 128 + (c % 64)>>

Utf8Width(h) == IF h < 128 THEN 1 ELSE IF h < 224 THEN 2 ELSE IF h < 240 THEN 3 ELSE 4

RECURSIVE Utf8Decode(_)
Utf8Decode(b) ==
  IF b = <<>> THEN <<>>
  ELSE LET n == Utf8Width(b[1])
           c == CASE n = 1 -> b[1]
                  [] n = 2 -> (b[1] - 192) * 64 + (b[2] - 128)
                  [] n = 3 -> (b[1] - 224) * 4096 + (b[2] - 128) * 64 + (b[3] - 128)
                  [] n = 4 -> (b[1] - 240) * 262144 + (b[2] - 128) * 4096
                              + (b[3] - 128) * 64 + (b[4] - 128)
       IN <<c>> \o Utf8Decode(SubSeq(b, n + 1, Len(b)))

Utf16Encode(c) ==
  IF c < 65536 THEN <<c>>
  ELSE <<55296 + ((c - 65536) \div 1024), 56320 + ((c - 65536) % 1024)>>

RECURSIVE Utf16Decode(_)
Utf16Decode(u) ==
  IF u = <<>> THEN <<>>
  ELSE IF u[1] >= 55296 /\ u[1] < 56320 /\ Len(u) >= 2
    THEN <<65536 + (u[1] - 55296) * 1024 + (u[2] - 56320)>>
         \o Utf16Decode(SubSeq(u, 3, Len(u)))
    ELSE <<u[1]>> \o Utf16Decode(SubSeq(u, 2, Len(u)))

RECURSIVE Concat(_)
Concat(ss) == IF ss = <<>> THEN <<>> ELSE ss[1] \o Concat(Tail(ss))

\* NSString::alloc(nil).init_str(s): the UTF-8 bytes of s become an NSString
make_nsstring(s) ==
  LET cps == Utf8Decode(s) IN Concat([i \in 1..Len(cps) |-> Utf16Encode(cps[i])])

\* s.UTF8String(): the NSString's contents as UTF-8 bytes
UTF8String(ns) ==
  LET cps == Utf16Decode(ns) IN Concat([i \in 1..Len(cps) |-> Utf8Encode(cps[i])])

\* s.len(): the number of bytes of the UTF-8 encoding
NSStringLen(ns) == Len(UTF8String(ns))

\* a plausible slip: the NSString's length in UTF-16 units taken as the byte count
from_nsstring_utf16_length(s) == SubSeq(UTF8String(s), 1, Len(s))

\* slice::from_raw_parts(s.UTF8String(), s.len()) taken as a str
from_nsstring(s) == SubSeq(UTF8String(s), 1, NSStringLen(s))

\* the texts handed to set_text: every string of at most MaxStrLen code points
Texts ==
  { Concat([i \in 1..Len(cs) |-> Utf8Encode(cs[i])]) :
      cs \in UNION { [1..n -> CodePoints] : n \in 0..MaxStrLen } }

(* ------------------------------ images --------------------------------- *)

\* ImageData { width, height, bytes }: row-major RGBA8
ImageData(w, h, seed) ==
  [width |-> w, height |-> h, bytes |-> [i \in 1..(w * h * 4) |-> (i * 37 + seed) % 256]]

\* the canonical images handed to set_image
Images == { ImageData(w, h, 0) : w \in 1..MaxDim, h \in 1..MaxDim }

NoImage == [width |-> 0, height |-> 0, bytes |-> <<>>]

ByteAt(data, i) == IF i \in 1..Len(data) THEN data[i] ELSE 0

\* a plausible slip: the row stride computed from the height
image_from_pixels_stride_height(pixels, width, height) ==
  [width |-> width, height |-> height, bitsPerComponent |-> 8, bitsPerPixel |-> 32,
   bytesPerRow |-> 4 * height, data |-> pixels]

\* the NSImage built over CGImage::new(width, height, 8, 32, 4 * width, ..., provider)
image_from_pixels(pixels, width, height) ==
  [width |-> width, height |-> height, bitsPerComponent |-> 8, bitsPerPixel |-> 32,
   bytesPerRow |-> 4 * width, data |-> pixels]

\* what writeObjects puts under public.tiff for an NSImage: the bitmap read row by
\* row through the CGImage's bytesPerRow, non-premultiplied RGBA, uncompressed
TIFFRepresentation(image) ==
  [valid |-> TRUE, width |-> image.width, height |-> image.height,
   pixels |->
     [k \in 1..(image.width * image.height) |->
        LET row == (k - 1) \div image.width
            col == (k - 1) % image.width
            off == row * image.bytesPerRow + col * (image.bitsPerPixel \div 8)
        IN [c \in 1..4 |-> ByteAt(image.data, off + c)]]]

\* bytes under public.tiff that are no TIFF file
CorruptTiff == [valid |-> FALSE, width |-> 0, height |-> 0, pixels |-> <<>>]

\* rgba.dimensions() and rgba.into_raw() of dyna_img.into_rgba8()
deal_dynamic_image(dyna_img) ==
  [width |-> dyna_img.width, height |-> dyna_img.height,
   bytes |-> [i \in 1..(dyna_img.width * dyna_img.height * 4) |->
                dyna_img.pixels[((i - 1) \div 4) + 1][((i - 1) % 4) + 1]]]

(* --------------------------- results of calls -------------------------- *)

Ok == [tag |-> "Ok", variant |-> "", description |-> "", text |-> <<>>, image |-> NoImage]
OkText(s) == [Ok EXCEPT !.text = s]
OkImage(img) == [Ok EXCEPT !.image = img]
Unknown(d) ==
  [tag |-> "Err", variant |-> "Unknown", description |-> d, text |-> <<>>, image |-> NoImage]
ConversionFailure ==
  [tag |-> "Err", variant |-> "ConversionFailure", description |-> "", text |-> <<>>,
   image |-> NoImage]
\* an unwrap() on an Err: the call does not return
Panic ==
  [tag |-> "Panic", variant |-> "", description |-> "", text |-> <<>>, image |-> NoImage]
NoResult ==
  [tag |-> "", variant |-> "", description |-> "", text |-> <<>>, image |-> NoImage]

(* --------------------------- files and URLs ---------------------------- *)
\* A file-url payload is a sequence of byte runs; a path is the decoded sequence.

FileImage ==
  [valid |-> TRUE, width |-> 2, height |-> 2,
   pixels |-> [k \in 1..4 |-> [c \in 1..4 |-> (k * 50 + c) % 256]]]

\* the file system that image::io::Reader::open meets
FileAt(path) ==
  CASE path = <<"/tmp/x", " ", "y.png">> -> "image"
    [] path = <<"/tmp/notes.txt">> -> "not-an-image"
    [] path = <<"/tmp">> -> "directory"
    [] OTHER -> "missing"

FileUrls ==
  { <<"file://", "/tmp/x", "%20", "y.png">>,
    <<"file://", "/tmp/missing.png">>,
    <<"file://", "/tmp/notes.txt">>,
    <<"file://", "/tmp">>,
    <<"file://", "/tmp/", "%FF">>,
    <<"http://", "example.com/x.png">> }

\* file_url.strip_prefix("file://"): <<rest>> or <<>> for None
strip_prefix(url) == IF url # <<>> /\ url[1] = "file://" THEN <<Tail(url)>> ELSE <<>>

\* urlencoding::decode: <<path>>, or <<>> when the decoded bytes are not UTF-8
urlencoding_decode(enc) ==
  IF \E i \in 1..Len(enc) : enc[i] = "%FF" THEN <<>>
  ELSE <<[i \in 1..Len(enc) |-> IF enc[i] = "%20" THEN " " ELSE enc[i]]>>

\* Reader::open(path).unwrap().with_guessed_format().unwrap().decode()
open_and_decode(path) ==
  CASE FileAt(path) = "missing" -> Panic
    [] FileAt(path) = "directory" -> Panic
    [] FileAt(path) = "not-an-image" -> Unknown("open img error")
    [] OTHER -> OkImage(deal_dynamic_image(FileImage))

(* ------------------------- the native pasteboard ----------------------- *)
\* pasteboard[t] is <<>> when no entry of type t is declared, else <<payload>>.

EmptyPasteboard == [t \in Types |-> <<>>]

\* [pasteboard types]
TypesOf(pb) == {t \in Types : pb[t] # <<>>}

\* a plausible slip: the prior contents are not cleared before the write
clearContents_skipped(pb) == pb

\* [pasteboard clearContents]
clearContents(pb) == EmptyPasteboard

\* [pasteboard setString: nsstring forType: NSPasteboardTypeString], accepted
setString(pb, nsstring) == [pb EXCEPT ![NSPasteboardTypeString] = <<nsstring>>]

\* [pasteboard writeObjects: [image]], accepted
writeObjects(pb, image) == [pb EXCEPT ![TIFF] = <<TIFFRepresentation(image)>>]

\* [pasteboard stringForType:] and [pasteboard dataForType:]: what a read of type t
\* returns, kept as <<t>> for nil and <<t, payload>> otherwise
dataForType(pb, t) == IF pb[t] = <<>> THEN <<t>> ELSE <<t, pb[t][1]>>

\* an inline bitmap another application declares: opaque, one pixel wide
OtherImage == ImageData(1, 2, 7)

\* what other applications declare on the pasteboard
Payloads(t) ==
  CASE t = NSPasteboardTypeString ->
         {make_nsstring(Utf8Encode(65)), make_nsstring(Utf8Encode(8364))}
    [] t = TIFF ->
         { TIFFRepresentation(image_from_pixels(OtherImage.bytes, OtherImage.width,
                                                OtherImage.height)),
           FileImage, CorruptTiff }
    [] t = FILE_URL -> FileUrls

InitialPasteboards ==
  { EmptyPasteboard,
    [EmptyPasteboard EXCEPT ![NSPasteboardTypeString] = <<make_nsstring(<<65>>)>>],
    [EmptyPasteboard EXCEPT ![TIFF] = <<FileImage>>],
    [EmptyPasteboard EXCEPT ![FILE_URL] = <<<<"file://", "/tmp/x", "%20", "y.png">>>>] }

(* ------------------------ the operations' bodies ----------------------- *)

\* get_text, lines 36-41
get_text_result(read) ==
  IF Len(read) = 1 THEN Unknown("can not get string from clipboard")
  ELSE OkText(from_nsstring(read[2]))

\* a plausible slip: the inline bitmap read even when a file reference is offered
SelectedType_inline_first(available_type) == TIFF

\* get_image, lines 69 and 104: the format whose data is read
SelectedType(available_type) == IF FILE_URL \in available_type THEN FILE_URL ELSE TIFF

\* a plausible slip: no null check, and from_nsdata of nil is the empty buffer
decode_file_url_unchecked(read) ==
  LET url == IF Len(read) = 1 THEN <<>> ELSE read[2]
      rest == strip_prefix(url)
      path == IF rest = <<>> THEN <<>> ELSE urlencoding_decode(rest[1])
  IN IF rest = <<>> THEN Unknown("file url illegal")
     ELSE IF path = <<>> THEN Unknown("decode url error")
     ELSE open_and_decode(path[1])

\* get_image, lines 70-101: the file-reference path
decode_file_url(read) ==
  IF Len(read) = 1 THEN Unknown("can not get data")
  ELSE LET rest == strip_prefix(read[2])
           path == IF rest = <<>> THEN <<>> ELSE urlencoding_decode(rest[1])
       IN IF rest = <<>> THEN Unknown("file url illegal")
          ELSE IF path = <<>> THEN Unknown("decode url error")
          ELSE open_and_decode(path[1])

\* get_image, lines 104-115: the inline-bitmap path
decode_tiff(read) ==
  IF Len(read) = 1 THEN Unknown("can not get data")
  ELSE IF read[2].valid THEN OkImage(deal_dynamic_image(read[2]))
  ELSE ConversionFailure

\* a plausible slip: the pasteboard cleared before the image is encoded
set_image_order_clear_first == <<"clearContents", "image_from_pixels", "writeObjects">>

\* set_image, lines 121-128: the order of its steps
set_image_order == <<"image_from_pixels", "clearContents", "writeObjects">>

\* the step after position k of set_image
SetImageStep(k) == IF k \in 1..Len(set_image_order) THEN set_image_order[k] ELSE "done"

(* ------------------------------- state --------------------------------- *)

VARIABLES
  pasteboard,      \* the shared native pasteboard
  pc,              \* per backend: the native call it is about to make
  op,              \* per backend: the operation in progress or last returned
  text,            \* per backend: set_text's argument
  img,             \* per backend: set_image's argument
  step,            \* per backend: position in set_image_order
  available_type,  \* per backend: get_image's available_type
  data,            \* per backend: what the last stringForType/dataForType returned
  image,           \* per backend: set_image's encoded NSImage, <<image>> once built
  result,          \* per backend: the value the call returned
  issued,          \* per backend: native writes issued by the call in progress
  before,          \* per backend: <<pasteboard at the start of its set_* call>>,
                   \*   <<>> once another writer has touched the pasteboard
  lastSet          \* per backend: <<its last successful set_* call>>, <<>> once
                   \*   another writer has touched the pasteboard

vars == <<pasteboard, pc, op, text, img, step, available_type, data, image, result,
          issued, before, lastSet>>

GetOps == {"get_text", "get_image"}
SetOps == {"set_text", "set_image"}

Init ==
  /\ pasteboard \in InitialPasteboards
  /\ pc = [p \in Backends |-> "idle"]
  /\ op = [p \in Backends |-> ""]
  /\ text = [p \in Backends |-> <<>>]
  /\ img = [p \in Backends |-> NoImage]
  /\ step = [p \in Backends |-> 0]
  /\ available_type = [p \in Backends |-> {}]
  /\ data = [p \in Backends |-> <<>>]
  /\ image = [p \in Backends |-> <<>>]
  /\ result = [p \in Backends |-> NoResult]
  /\ issued = [p \in Backends |-> {}]
  /\ before = [p \in Backends |-> <<>>]
  /\ lastSet = [p \in Backends |-> <<>>]

\* a native write by backend p (or by another application when p is "") ends what
\* every other backend knows about the pasteboard
Forget(f, p) == [q \in Backends |-> IF q = p THEN f[q] ELSE <<>>]

FirstPc(o) ==
  CASE o = "get_text" -> "stringForType"
    [] o = "set_text" -> "clearContents"
    [] o = "get_image" -> "types"
    [] o = "set_image" -> SetImageStep(1)

\* backend p enters operation o with arguments t and i
Invoke(p, o, t, i) ==
  /\ pc' = [pc EXCEPT ![p] = FirstPc(o)]
  /\ op' = [op EXCEPT ![p] = o]
  /\ text' = [text EXCEPT ![p] = t]
  /\ img' = [img EXCEPT ![p] = i]
  /\ step' = [step EXCEPT ![p] = IF o = "set_image" THEN 1 ELSE 0]
  /\ available_type' = [available_type EXCEPT ![p] = {}]
  /\ data' = [data EXCEPT ![p] = <<>>]
  /\ image' = [image EXCEPT ![p] = <<>>]
  /\ result' = [result EXCEPT ![p] = NoResult]
  /\ issued' = [issued EXCEPT ![p] = {}]
  /\ before' = [before EXCEPT ![p] = IF o \in SetOps THEN <<pasteboard>> ELSE <<>>]
  /\ lastSet' = [lastSet EXCEPT ![p] = IF o \in SetOps THEN <<>> ELSE @]
  /\ UNCHANGED pasteboard

\* the caller calls one of the four operations on backend p
Call(p) ==
  /\ pc[p] \in {"idle", "done"}
  /\ result[p].tag # "Panic"
  /\ \/ \E o \in GetOps : Invoke(p, o, <<>>, NoImage)
     \/ \E t \in Texts : Invoke(p, "set_text", t, NoImage)
     \/ \E i \in Images : Invoke(p, "set_image", <<>>, i)

\* a racing writer: backend p issues a single set_* call
CallSetOnce(p) ==
  /\ pc[p] = "idle"
  /\ \/ \E t \in Texts : Invoke(p, "set_text", t, NoImage)
     \/ \E i \in Images : Invoke(p, "set_image", <<>>, i)

\* the record of a successful set_* call of p that no other writer disturbed
Installed(p) ==
  IF before[p] = <<>> THEN <<>>
  ELSE <<[op |-> op[p], text |-> text[p], img |-> img[p], prior |-> TypesOf(before[p][1])]>>

\* get_text: stringForType and the return
GetText(p) ==
  /\ pc[p] = "stringForType" /\ op[p] = "get_text"
  /\ LET read == dataForType(pasteboard, NSPasteboardTypeString)
     IN /\ data' = [data EXCEPT ![p] = read]
        /\ result' = [result EXCEPT ![p] = get_text_result(read)]
  /\ pc' = [pc EXCEPT ![p] = "done"]
  /\ UNCHANGED <<pasteboard, op, text, img, step, available_type, image, issued, before,
                 lastSet>>

\* set_text: clearContents
SetTextClear(p) ==
  /\ pc[p] = "clearContents" /\ op[p] = "set_text"
  /\ pasteboard' = clearContents(pasteboard)
  /\ issued' = [issued EXCEPT ![p] = @ \cup {"clearContents"}]
  /\ before' = Forget(before, p)
  /\ lastSet' = Forget(lastSet, p)
  /\ pc' = [pc EXCEPT ![p] = "setString"]
  /\ UNCHANGED <<op, text, img, step, available_type, data, image, result>>

\* set_text: setString:forType:, which the pasteboard accepts or declines, and the return
SetTextWrite(p) ==
  /\ pc[p] = "setString" /\ op[p] = "set_text"
  /\ \E accepted \in BOOLEAN :
       /\ pasteboard' = IF accepted THEN setString(pasteboard, make_nsstring(text[p]))
                        ELSE pasteboard
       /\ result' = [result EXCEPT ![p] =
                       IF accepted THEN Ok ELSE Unknown("failed to set clipboard")]
       /\ before' = IF accepted THEN Forget(before, p) ELSE before
       /\ lastSet' = IF accepted THEN [Forget(lastSet, p) EXCEPT ![p] = Installed(p)]
                     ELSE lastSet
  /\ issued' = [issued EXCEPT ![p] = @ \cup {"setString"}]
  /\ pc' = [pc EXCEPT ![p] = "done"]
  /\ UNCHANGED <<op, text, img, step, available_type, data, image>>

\* get_image: available_type_names() and the check for public.tiff
GetImageTypes(p) ==
  /\ pc[p] = "types" /\ op[p] = "get_image"
  /\ LET types == TypesOf(pasteboard)
     IN /\ available_type' = [available_type EXCEPT ![p] = types]
        /\ IF TIFF \notin types
             THEN /\ result' = [result EXCEPT ![p] = Unknown("probably not a picture")]
                  /\ pc' = [pc EXCEPT ![p] = "done"]
             ELSE /\ result' = result
                  /\ pc' = [pc EXCEPT ![p] = "dataForType"]
  /\ UNCHANGED <<pasteboard, op, text, img, step, data, image, issued, before, lastSet>>

\* get_image: dataForType of the selected format, the decoding and the return
GetImageData(p) ==
  /\ pc[p] = "dataForType" /\ op[p] = "get_image"
  /\ LET t == SelectedType(available_type[p])
         read == dataForType(pasteboard, t)
     IN /\ data' = [data EXCEPT ![p] = read]
        /\ result' = [result EXCEPT ![p] =
                        IF t = FILE_URL THEN decode_file_url(read) ELSE decode_tiff(read)]
  /\ pc' = [pc EXCEPT ![p] = "done"]
  /\ UNCHANGED <<pasteboard, op, text, img, step, available_type, image, issued, before,
                 lastSet>>

\* set_image: image_from_pixels, which fails when the NSImage class is not found
SetImageEncode(p) ==
  /\ pc[p] = "image_from_pixels" /\ op[p] = "set_image"
  /\ \E found \in BOOLEAN :
       IF found
         THEN /\ image' = [image EXCEPT ![p] =
                             <<image_from_pixels(img[p].bytes, img[p].width, img[p].height)>>]
              /\ pc' = [pc EXCEPT ![p] = SetImageStep(step[p] + 1)]
              /\ step' = [step EXCEPT ![p] = @ + 1]
              /\ result' = result
         ELSE /\ result' = [result EXCEPT ![p] = ConversionFailure]
              /\ pc' = [pc EXCEPT ![p] = "done"]
              /\ UNCHANGED <<image, step>>
  /\ UNCHANGED <<pasteboard, op, text, img, available_type, data, issued, before, lastSet>>

\* set_image: clearContents
SetImageClear(p) ==
  /\ pc[p] = "clearContents" /\ op[p] = "set_image"
  /\ pasteboard' = clearContents(pasteboard)
  /\ issued' = [issued EXCEPT ![p] = @ \cup {"clearContents"}]
  /\ before' = Forget(before, p)
  /\ lastSet' = Forget(lastSet, p)
  /\ pc' = [pc EXCEPT ![p] = SetImageStep(step[p] + 1)]
  /\ step' = [step EXCEPT ![p] = @ + 1]
  /\ UNCHANGED <<op, text, img, available_type, data, image, result>>

\* set_image: writeObjects, which the pasteboard accepts or declines, and the return
SetImageWrite(p) ==
  /\ pc[p] = "writeObjects" /\ op[p] = "set_image"
  /\ image[p] # <<>>
  /\ \E accepted \in BOOLEAN :
       /\ pasteboard' = IF accepted THEN writeObjects(pasteboard, image[p][1])
                        ELSE pasteboard
       /\ result' = [result EXCEPT ![p] =
                       IF accepted THEN Ok
                       ELSE Unknown("Failed to write the image to the pasteboard")]
       /\ before' = IF accepted THEN Forget(before, p) ELSE before
       /\ lastSet' = IF accepted THEN [Forget(lastSet, p) EXCEPT ![p] = Installed(p)]
                     ELSE lastSet
  /\ issued' = [issued EXCEPT ![p] = @ \cup {"writeObjects"}]
  /\ pc' = [pc EXCEPT ![p] = "done"]
  /\ UNCHANGED <<op, text, img, step, available_type, data, image>>

\* another application clears the pasteboard
OtherClear ==
  /\ pasteboard # EmptyPasteboard
  /\ pasteboard' = EmptyPasteboard
  /\ before' = Forget(before, "")
  /\ lastSet' = Forget(lastSet, "")
  /\ UNCHANGED <<pc, op, text, img, step, available_type, data, image, result, issued>>

\* another application declares a representation on the pasteboard
OtherDeclare ==
  /\ \E t \in Types : \E payload \in Payloads(t) :
       /\ pasteboard[t] # <<payload>>
       /\ pasteboard' = [pasteboard EXCEPT ![t] = <<payload>>]
  /\ before' = Forget(before, "")
  /\ lastSet' = Forget(lastSet, "")
  /\ UNCHANGED <<pc, op, text, img, step, available_type, data, image, result, issued>>

\* the backend whose contract Spec checks
Single == {"A"}

Next ==
  \/ \E p \in Single :
       \/ Call(p)
       \/ GetText(p)
       \/ SetTextClear(p)
       \/ SetTextWrite(p)
       \/ GetImageTypes(p)
       \/ GetImageData(p)
       \/ SetImageEncode(p)
       \/ SetImageClear(p)
       \/ SetImageWrite(p)
  \/ OtherClear
  \/ OtherDeclare

Spec == Init /\ [][Next]_vars

NextRace ==
  \E p \in Backends :
    \/ CallSetOnce(p)
    \/ SetTextClear(p)
    \/ SetTextWrite(p)
    \/ SetImageEncode(p)
    \/ SetImageClear(p)
    \/ SetImageWrite(p)

SpecRace == Init /\ [][NextRace]_vars

(* ------------------------- the errors, by kind ------------------------- *)
\* Every failure of this backend is an Error::Unknown with a description, or
\* Error::ConversionFailure; the kinds below group them by what they report.

\* the pasteboard holds no image: no public.tiff advertised, or nil for its data
NotAnImage == {Unknown("probably not a picture"), Unknown("can not get data")}

\* the pasteboard holds no text
NotAvailable == {Unknown("can not get string from clipboard")}

\* the selected source could not be decoded
DecodeFailure == {Unknown("open img error"), ConversionFailure}

\* the native write was declined
WriteFailure ==
  {Unknown("failed to set clipboard"), Unknown("Failed to write the image to the pasteboard")}

\* what the set_* call of backend p installs when it runs alone and succeeds
InstalledAlone(p) ==
  IF op[p] = "set_text"
    THEN [EmptyPasteboard EXCEPT ![NSPasteboardTypeString] = <<make_nsstring(text[p])>>]
    ELSE [EmptyPasteboard EXCEPT ![TIFF] =
            <<TIFFRepresentation(image_from_pixels(img[p].bytes, img[p].width,
                                                   img[p].height))>>]

\* backend p has returned from a call of operation o
Returned(p, o) == pc[p] = "done" /\ op[p] = o

\* backend p's last set_* call was o, it succeeded, and nobody has written since
LastSetWas(p, o) == lastSet[p] # <<>> /\ lastSet[p][1].op = o

\* the path a file-url payload names, <<path>>, or <<>> when it names none
PathOf(url) ==
  IF strip_prefix(url) = <<>> THEN <<>> ELSE urlencoding_decode(strip_prefix(url)[1])

(* ------------------------------ the claims ----------------------------- *)

\* C1: a successful set_text or set_image that no other writer interleaved with
\* leaves on the pasteboard exactly the representation of the value written and
\* nothing of the prior content; and a get_image that follows an undisturbed
\* successful set_text fails with the not-an-image error.
C1_SetReplacesEverything ==
  \A p \in Backends :
    /\ (Returned(p, "set_text") /\ result[p].tag = "Ok" /\ before[p] # <<>>)
         => /\ TypesOf(pasteboard) = {NSPasteboardTypeString}
            /\ pasteboard[NSPasteboardTypeString] = <<make_nsstring(text[p])>>
    /\ (Returned(p, "set_image") /\ result[p].tag = "Ok" /\ before[p] # <<>>)
         => /\ TypesOf(pasteboard) = {TIFF}
            /\ pasteboard[TIFF][1].valid
            /\ deal_dynamic_image(pasteboard[TIFF][1]) = img[p]
    /\ (Returned(p, "get_image") /\ LastSetWas(p, "set_text"))
         => result[p] = Unknown("probably not a picture")

\* C1 witness: get_image has failed as not-an-image after a set_text that replaced
\* a pasteboard holding an image
C1_Witness ==
  \E p \in Backends :
    /\ Returned(p, "get_image") /\ LastSetWas(p, "set_text")
    /\ TIFF \in lastSet[p][1].prior
    /\ result[p] \in NotAnImage

\* C2: get_text after an undisturbed successful set_text(s) returns Ok(s).
C2_TextRoundTrip ==
  \A p \in Backends :
    (Returned(p, "get_text") /\ LastSetWas(p, "set_text"))
      => result[p] = OkText(lastSet[p][1].text)

\* C2 witness: a text with a four-byte code point has made the round trip
C2_Witness ==
  \E p \in Backends :
    /\ Returned(p, "get_text") /\ LastSetWas(p, "set_text")
    /\ result[p].tag = "Ok" /\ Len(result[p].text) = 4

\* C3: get_image after an undisturbed successful set_image(i) returns an image
\* with i's width, height and bytes.
C3_ImageRoundTrip ==
  \A p \in Backends :
    (Returned(p, "get_image") /\ LastSetWas(p, "set_image"))
      => /\ result[p].tag = "Ok"
         /\ result[p].image.width = lastSet[p][1].img.width
         /\ result[p].image.height = lastSet[p][1].img.height
         /\ result[p].image.bytes = lastSet[p][1].img.bytes

\* C3 witness: a non-square image has made the round trip over a pasteboard that
\* advertised a file reference before
C3_Witness ==
  \E p \in Backends :
    /\ Returned(p, "get_image") /\ LastSetWas(p, "set_image")
    /\ FILE_URL \in lastSet[p][1].prior
    /\ lastSet[p][1].img.width # lastSet[p][1].img.height
    /\ result[p].tag = "Ok"

\* C4: get_image rejects the pasteboard as not an image only when both the inline
\* bitmap and the file reference are absent, and decodes the file when only a file
\* reference to a valid image file is advertised.
C4_RejectsOnlyWhenBothAbsent ==
  \A p \in Backends :
    Returned(p, "get_image") =>
      /\ result[p] = Unknown("probably not a picture")
           => (TIFF \notin available_type[p] /\ FILE_URL \notin available_type[p])
      /\ ( /\ available_type[p] = {FILE_URL}
           /\ TypesOf(pasteboard) = {FILE_URL}
           /\ PathOf(pasteboard[FILE_URL][1]) # <<>>
           /\ FileAt(PathOf(pasteboard[FILE_URL][1])[1]) = "image" )
           => result[p] = OkImage(deal_dynamic_image(FileImage))

\* C5: when both the inline bitmap and the file reference are advertised, get_image
\* reads the file reference, never the inline bitmap, and its result is the one the
\* file-reference payload and the file it names give.
C5_FileReferenceFirst ==
  \A p \in Backends :
    (Returned(p, "get_image") /\ {TIFF, FILE_URL} \subseteq available_type[p])
      => /\ data[p] # <<>> /\ data[p][1] = FILE_URL
         /\ result[p] = decode_file_url(data[p])

\* C5 witness: get_image returned the file's image while the pasteboard held a
\* different, valid inline bitmap
C5_Witness ==
  \E p \in Backends :
    /\ Returned(p, "get_image") /\ {TIFF, FILE_URL} \subseteq available_type[p]
    /\ pasteboard[TIFF] # <<>> /\ pasteboard[TIFF][1].valid
    /\ pasteboard[TIFF][1] # FileImage
    /\ result[p] = OkImage(deal_dynamic_image(FileImage))

\* C6: on the file-reference path every failure to open, read or decode the file
\* makes get_image return an error of kind DecodeFailure; the call never panics.
C6_FileFailuresAreErrors ==
  \A p \in Backends :
    ( /\ Returned(p, "get_image")
      /\ Len(data[p]) = 2 /\ data[p][1] = FILE_URL
      /\ PathOf(data[p][2]) # <<>>
      /\ FileAt(PathOf(data[p][2])[1]) # "image" )
      => result[p] \in DecodeFailure

\* C7: when set_text or set_image fails because the native write was declined, the
\* contents the pasteboard had before the call are still there.
C7_FailedSetKeepsContents ==
  \A p \in Backends :
    ( /\ pc[p] = "done" /\ op[p] \in SetOps
      /\ result[p] \in WriteFailure
      /\ before[p] # <<>> )
      => pasteboard = before[p][1]

\* C8: once two racing set_* calls have both returned successfully, the pasteboard
\* holds exactly what one of the two calls alone would have installed.
C8_LastWriterWins ==
  ( \A p \in Backends : /\ pc[p] = "done" /\ op[p] \in SetOps /\ result[p].tag = "Ok" )
    => \E p \in Backends : pasteboard = InstalledAlone(p)

\* C9: a set_image whose encoding fails returns the conversion failure without
\* having issued clearContents or writeObjects, and the pasteboard is as before.
C9_EncodeBeforeClear ==
  \A p \in Backends :
    (Returned(p, "set_image") /\ result[p] = ConversionFailure)
      => /\ issued[p] = {}
         /\ before[p] # <<>> => pasteboard = before[p][1]

\* C9 witness: set_image failed to encode over a pasteboard that held something
C9_Witness ==
  \E p \in Backends :
    /\ Returned(p, "set_image") /\ result[p] = ConversionFailure
    /\ before[p] # <<>> /\ before[p][1] # EmptyPasteboard
    /\ pasteboard = before[p][1]

\* C10: when the format get_image selected is gone by the time its data is read,
\* get_image returns a not-an-image error; when the text is gone by the time
\* get_text reads it, get_text returns a not-available error; neither panics nor
\* returns a value.
C10_RaceIsAnError ==
  \A p \in Backends :
    /\ (Returned(p, "get_image") /\ Len(data[p]) = 1) => result[p] \in NotAnImage
    /\ (Returned(p, "get_text") /\ Len(data[p]) = 1) => result[p] \in NotAvailable

\* C10 witness: get_image saw the file reference advertised and then read nil for it,
\* another writer having cleared the pasteboard in between
C10_Witness ==
  \E p \in Backends :
    /\ Returned(p, "get_image")
    /\ data[p] = <<FILE_URL>> /\ FILE_URL \in available_type[p]
    /\ result[p] \in NotAnImage

====
